---- MODULE Spec2Model ----
(***************************************************************************)
(* Model of the two entry points of discord-notification-bot:              *)
(*   notification-bot.js   (the sender)                                    *)
(*   purge-conversation.js (the purger)                                    *)
(* One behaviour is one run of one process.  Each action is one segment of *)
(* JavaScript between two suspension points (await / event delivery).      *)
(* Text is a sequence of tokens (words, blanks, punctuation);              *)
(* String.prototype.includes is contiguous sub-sequence search, trim()     *)
(* strips white-space tokens from both ends, += and template literals are  *)
(* concatenation.                                                          *)
(***************************************************************************)
EXTENDS Integers, Sequences, FiniteSets, TLC

VARIABLES
    tool,            \* which script runs: "sender" or "purger"
    env,             \* process.env restricted to REQUIRED_ENV_VARS
    stdinRest,       \* text not yet delivered by process.stdin
    input,           \* readStdin: let input
    message,         \* main: const message (sender)
    mainPc,          \* position of main()
    readyPc,         \* position of the shardReady / ready handler
    errPending,      \* "error" handlers suspended at await client.destroy()
    exited,          \* process.exit was called
    exitCode,        \* its argument
    clientConstructed, \* createDiscordClient() has run
    calls,           \* number of calls issued per client operation
    sendArgs,        \* arguments of user.send, in call order
    dm,              \* remote conversation: set of [id, author]
    dm0,             \* the conversation when the run started
    page,            \* deleteBotMessagesFromDM: const messages (fetch order)
    idx,             \* position of the for..of loop in page
    lastMessageId,   \* deleteBotMessagesFromDM: let lastMessageId (0 = undefined)
    messagesDeleted, \* deleteBotMessagesFromDM: let messagesDeleted
    deleteCalls,     \* message id -> number of message.delete() calls
    failed,          \* ids whose delete fault was logged and skipped
    fetchLog,        \* options of every messages.fetch call, in order
    reported,        \* <<deletedCount>> once "Finished. Deleted n" is printed
    lastError,       \* text of the last console.error
    caught,          \* ready handler, catch (error): error.message
    cause,           \* kind of the fault the main flow ran into ("none" if none)
    asyncErrors,     \* number of client "error" events delivered
    timer,           \* delay: ms left until the pending setTimeout fires
    waited,          \* ms elapsed since the last successful deletion returned
    pageLog,         \* the pages messages.fetch returned, in order
    run              \* which run of the tool on this conversation this is

vars == <<tool, env, stdinRest, input, message, mainPc, readyPc, errPending,
          exited, exitCode, clientConstructed, calls, sendArgs, dm, dm0, page,
          idx, lastMessageId, messagesDeleted, deleteCalls, failed, fetchLog,
          reported, lastError, caught, cause, asyncErrors, timer, waited,
          pageLog, run>>

----------------------------------------------------------------------------
(* Bounds of the model *)

\* longest standard input, in tokens
MaxInputLen == 3
\* largest conversation, in messages
MaxMsgs == 4
\* CONFIG.RATE_LIMIT.BATCH_SIZE: the page size (50 in purge-conversation.js),
\* scaled down; every statement below is made for BATCH_SIZE, whatever it is
BATCH_SIZE == 2
\* client "error" events per run
MaxAsyncErrors == 1
\* ms of time that pass in one step while a timer is pending
TickMs == 500
\* successive runs of the purger on one conversation
MaxRuns == 2

----------------------------------------------------------------------------
(* Program constants *)

REQUIRED_ENV_VARS == <<"BOT_TOKEN", "DM_USER_ID">>

SENDER_SUCCESS == 0
SENDER_NO_MESSAGE == 1
SENDER_MISSING_ENV == 2
SENDER_DISCORD_ERROR == 3
SENDER_STDIN_ERROR == 4

PURGER_SUCCESS == 0
PURGER_MISSING_ENV == 1
PURGER_DISCORD_ERROR == 2
PURGER_RATE_LIMIT == 3

DELAY_MS == 1000
RATE_LIMIT_CODE == 50001
\* codes a failed message.delete() may carry: Missing Access, Unknown Message
FaultCodes == {50001, 10008}

----------------------------------------------------------------------------
(* Text *)

WhiteSpace == {" ", "\n", "\t"}
InputTokens == {"h", " ", "\n"}

\* an environment variable that is not set
Undefined == "<undefined>"
EnvValues == {Undefined, "", "v"}

\* texts an underlying fault (stream, login, platform) may carry
FaultTexts ==
    { <<"boom">>,
      <<"bad", " ", "environment", " ", "variables">>,
      <<"stdin", " ", "closed">>,
      <<"Rate", " ", "limit", " ", "hit">> }

RECURSIVE TrimStart(_)
TrimStart(s) ==
    IF s # <<>> /\ Head(s) \in WhiteSpace THEN TrimStart(Tail(s)) ELSE s

RECURSIVE TrimEnd(_)
TrimEnd(s) ==
    IF s # <<>> /\ s[Len(s)] \in WhiteSpace
    THEN TrimEnd(SubSeq(s, 1, Len(s) - 1))
    ELSE s

TrimStartOnly(s) == TrimStart(s)

Trim(s) == TrimEnd(TrimStart(s))

Includes(s, sub) ==
    \E i \in 0..(Len(s) - Len(sub)) : SubSeq(s, i + 1, i + Len(sub)) = sub

RECURSIVE Join(_, _)
Join(items, sep) ==
    IF items = <<>> THEN <<>>
    ELSE IF Len(items) = 1 THEN <<items[1]>>
    ELSE <<items[1]>> \o sep \o Join(Tail(items), sep)

Falsy(v) == v = Undefined \/ v = ""

----------------------------------------------------------------------------
(* Shared helpers *)

Bump(c, op) == [c EXCEPT ![op] = @ + 1]

Ops == {"login", "fetchUser", "send", "createDM", "fetch", "delete", "destroy"}

\* the operations that reach the platform (everything but the local teardown)
NetworkOps == Ops \ {"destroy"}

BotId == "bot"
UserId == "user"

MissingVarsFirstOnly(e) ==
    LET all == SelectSeq(REQUIRED_ENV_VARS, LAMBDA k : Falsy(e[k]))
    IN  IF all = <<>> THEN <<>> ELSE <<all[1]>>

\* validateEnvironment: const missingVars
MissingVars(e) == SelectSeq(REQUIRED_ENV_VARS, LAMBDA k : Falsy(e[k]))

\* validateEnvironment: the message of the Error it throws
MissingEnvMessage(e) ==
    <<"Missing", " ", "required", " ", "environment", " ", "variables", ":", " ">>
        \o Join(MissingVars(e), <<",", " ">>)

NoInputMessage == <<"No", " ", "message", " ", "input", " ", "received">>

StdinErrorMessage(text) ==
    <<"Failed", " ", "to", " ", "read", " ", "from", " ", "stdin", ":", " ">> \o text

UserNotFoundMessage(e) ==
    <<"User", " ", e["DM_USER_ID"], " ", "not", " ", "found">>

SendDMErrorMessage(text) ==
    <<"Failed", " ", "to", " ", "send", " ", "DM", ":", " ">> \o text

RateLimitMessage == <<"Rate", " ", "limit", " ", "exceeded">>

DeleteMessagesErrorMessage(text) ==
    <<"Failed", " ", "to", " ", "delete", " ", "messages", ":", " ">> \o text

\* notification-bot.js main, catch: const exitCode
SenderCatchExitCode(msg) ==
    IF Includes(msg, <<"environment", " ", "variables">>) THEN SENDER_MISSING_ENV
    ELSE IF Includes(msg, <<"stdin">>) THEN SENDER_STDIN_ERROR
    ELSE SENDER_DISCORD_ERROR

\* purge-conversation.js main, catch: the argument of process.exit
PurgerCatchExitCode(msg) ==
    IF Includes(msg, <<"environment", " ", "variables">>) THEN PURGER_MISSING_ENV
    ELSE PURGER_DISCORD_ERROR

\* purge-conversation.js ready handler, catch: the argument of process.exit
PurgerReadyCatchExitCode(msg) ==
    IF Includes(msg, <<"Rate", " ", "limit">>) THEN PURGER_RATE_LIMIT
    ELSE PURGER_DISCORD_ERROR

MainCatchExitCode(t, msg) ==
    IF t = "sender" THEN SenderCatchExitCode(msg) ELSE PurgerCatchExitCode(msg)

\* all token sequences over InputTokens of length at most n
RECURSIVE TextsUpTo(_)
TextsUpTo(n) ==
    IF n = 0 THEN {<<>>}
    ELSE LET shorter == TextsUpTo(n - 1)
         IN  shorter \cup {Append(t, c) : t \in shorter, c \in InputTokens}

\* all conversations of at most MaxMsgs messages, ids 1..m, any authors
Conversations ==
    UNION { { {[id |-> i, author |-> a[i]] : i \in 1..m}
                : a \in [1..m -> {BotId, UserId}] }
              : m \in 0..MaxMsgs }

----------------------------------------------------------------------------
(* Initial state: the process has started, main() has not run yet *)

Init ==
    /\ tool \in {"sender", "purger"}
    /\ env \in [{"BOT_TOKEN", "DM_USER_ID"} -> EnvValues]
    /\ stdinRest \in (IF tool = "sender" THEN TextsUpTo(MaxInputLen) ELSE {<<>>})
    /\ dm \in (IF tool = "purger" THEN Conversations ELSE {{}})
    /\ dm0 = dm
    /\ input = <<>>
    /\ message = <<>>
    /\ mainPc = "validate"
    /\ readyPc = "idle"
    /\ errPending = 0
    /\ exited = FALSE
    /\ exitCode = 0
    /\ clientConstructed = FALSE
    /\ calls = [o \in Ops |-> 0]
    /\ sendArgs = <<>>
    /\ page = <<>>
    /\ idx = 0
    /\ lastMessageId = 0
    /\ messagesDeleted = 0
    /\ deleteCalls = [i \in 1..(MaxMsgs) |-> 0]
    /\ failed = {}
    /\ fetchLog = <<>>
    /\ reported = <<>>
    /\ lastError = <<>>
    /\ caught = <<>>
    /\ cause = "none"
    /\ asyncErrors = 0
    /\ timer = 0
    /\ waited = 0
    /\ pageLog = <<>>
    /\ run = 1

----------------------------------------------------------------------------
(* process.exit and the start of the client *)

Exit(code) ==
    /\ exited' = TRUE
    /\ exitCode' = code

\* createDiscordClient(), client.once(ready), client.on("error"), client.login()
StartClient ==
    /\ clientConstructed' = TRUE
    /\ calls' = Bump(calls, "login")
    /\ mainPc' = "login"

\* main(): catch (error) of the outer try
MainCatch(msg, why) ==
    /\ lastError' = msg
    /\ cause' = why
    /\ Exit(MainCatchExitCode(tool, msg))

\* ready handler: catch (error) up to await client.destroy()
ReadyCatch(msg, why) ==
    /\ lastError' = msg
    /\ caught' = msg
    /\ cause' = why
    /\ calls' = Bump(calls, "destroy")
    /\ readyPc' = "destroyFail"

----------------------------------------------------------------------------
(* main() up to its first suspension point *)

MainValidateClientFirst ==
    /\ ~exited
    /\ mainPc = "validate"
    /\ IF MissingVars(env) # <<>>
       THEN /\ MainCatch(MissingEnvMessage(env), "missing_config")
            /\ UNCHANGED <<mainPc, clientConstructed, calls>>
       ELSE /\ clientConstructed' = TRUE
            /\ IF tool = "sender"
               THEN mainPc' = "readStdin" /\ calls' = calls
               ELSE mainPc' = "login" /\ calls' = Bump(calls, "login")
            /\ UNCHANGED <<lastError, cause, exited, exitCode>>
    /\ UNCHANGED <<tool, env, stdinRest, input, message, readyPc, errPending,
                   sendArgs, dm, dm0, page, idx, lastMessageId, messagesDeleted,
                   deleteCalls, failed, fetchLog, reported, caught, asyncErrors>>
    /\ UNCHANGED <<timer, waited, pageLog, run>>

MainValidate ==
    /\ ~exited
    /\ mainPc = "validate"
    /\ IF MissingVars(env) # <<>>
       THEN /\ MainCatch(MissingEnvMessage(env), "missing_config")
            /\ UNCHANGED <<mainPc, clientConstructed, calls>>
       ELSE /\ IF tool = "sender"
               THEN mainPc' = "readStdin" /\ UNCHANGED <<clientConstructed, calls>>
               ELSE StartClient
            /\ UNCHANGED <<lastError, cause, exited, exitCode>>
    /\ UNCHANGED <<tool, env, stdinRest, input, message, readyPc, errPending,
                   sendArgs, dm, dm0, page, idx, lastMessageId, messagesDeleted,
                   deleteCalls, failed, fetchLog, reported, caught, asyncErrors>>
    /\ UNCHANGED <<timer, waited, pageLog, run>>

----------------------------------------------------------------------------
(* readStdin *)

\* a promise settles once: later resolve / reject calls are ignored
Settle(p, outcome) == IF p.state = "pending" THEN outcome ELSE p

Pending == [state |-> "pending", value |-> <<>>]

\* the "end" listener: the promise it leaves behind
ReadStdinOnEnd(inp) ==
    LET trimmedInput == Trim(inp)
        afterReject ==
            IF trimmedInput = <<>>
            THEN Settle(Pending, [state |-> "rejected", value |-> NoInputMessage])
            ELSE Pending
    IN  Settle(afterReject, [state |-> "resolved", value |-> trimmedInput])

\* the "data" listener: input += chunk
StdinData ==
    /\ ~exited
    /\ mainPc = "readStdin"
    /\ stdinRest # <<>>
    /\ \E k \in 1..Len(stdinRest) :
          /\ input' = input \o SubSeq(stdinRest, 1, k)
          /\ stdinRest' = SubSeq(stdinRest, k + 1, Len(stdinRest))
    /\ UNCHANGED <<tool, env, message, mainPc, readyPc, errPending, exited,
                   exitCode, clientConstructed, calls, sendArgs, dm, dm0, page,
                   idx, lastMessageId, messagesDeleted, deleteCalls, failed,
                   fetchLog, reported, lastError, caught, cause, asyncErrors>>
    /\ UNCHANGED <<timer, waited, pageLog, run>>

\* the "end" listener, then main() resumed after await readStdin()
StdinEnd ==
    /\ ~exited
    /\ mainPc = "readStdin"
    /\ stdinRest = <<>>
    /\ LET p == ReadStdinOnEnd(input)
       IN  IF p.state = "rejected"
           THEN /\ MainCatch(p.value, "empty_input")
                /\ UNCHANGED <<message, mainPc, clientConstructed, calls>>
           ELSE /\ message' = p.value
                /\ StartClient
                /\ UNCHANGED <<lastError, cause, exited, exitCode>>
    /\ UNCHANGED <<tool, env, stdinRest, input, readyPc, errPending, sendArgs,
                   dm, dm0, page, idx, lastMessageId, messagesDeleted,
                   deleteCalls, failed, fetchLog, reported, caught, asyncErrors>>
    /\ UNCHANGED <<timer, waited, pageLog, run>>

\* the "error" listener, then main() resumed in its catch
StdinError ==
    /\ ~exited
    /\ mainPc = "readStdin"
    /\ \E text \in FaultTexts : MainCatch(StdinErrorMessage(text), "stdin_error")
    /\ UNCHANGED <<tool, env, stdinRest, input, message, mainPc, readyPc,
                   errPending, clientConstructed, calls, sendArgs, dm, dm0,
                   page, idx, lastMessageId, messagesDeleted, deleteCalls,
                   failed, fetchLog, reported, caught, asyncErrors>>
    /\ UNCHANGED <<timer, waited, pageLog, run>>

----------------------------------------------------------------------------
(* client.login and the client's events *)

\* await client.login(...) returns: main() ends
LoginResolve ==
    /\ ~exited
    /\ mainPc = "login"
    /\ mainPc' = "done"
    /\ UNCHANGED <<tool, env, stdinRest, input, message, readyPc, errPending,
                   exited, exitCode, clientConstructed, calls, sendArgs, dm,
                   dm0, page, idx, lastMessageId, messagesDeleted, deleteCalls,
                   failed, fetchLog, reported, lastError, caught, cause,
                   asyncErrors>>
    /\ UNCHANGED <<timer, waited, pageLog, run>>

\* await client.login(...) throws: main() resumed in its catch
LoginReject ==
    /\ ~exited
    /\ mainPc = "login"
    /\ readyPc = "idle"
    /\ \E text \in FaultTexts : MainCatch(text, "login_failure")
    /\ UNCHANGED <<tool, env, stdinRest, input, message, mainPc, readyPc,
                   errPending, clientConstructed, calls, sendArgs, dm, dm0,
                   page, idx, lastMessageId, messagesDeleted, deleteCalls,
                   failed, fetchLog, reported, caught, asyncErrors>>
    /\ UNCHANGED <<timer, waited, pageLog, run>>

\* shardReady (sender) / ready (purger): the handler up to await users.fetch
Ready ==
    /\ ~exited
    /\ mainPc \in {"login", "done"}
    /\ readyPc = "idle"
    /\ calls' = Bump(calls, "fetchUser")
    /\ readyPc' = "fetchUser"
    /\ UNCHANGED <<tool, env, stdinRest, input, message, mainPc, errPending,
                   exited, exitCode, clientConstructed, sendArgs, dm, dm0,
                   page, idx, lastMessageId, messagesDeleted, deleteCalls,
                   failed, fetchLog, reported, lastError, caught, cause,
                   asyncErrors>>
    /\ UNCHANGED <<timer, waited, pageLog, run>>

\* client.on("error"): the handler up to await client.destroy()
ErrorEvent ==
    /\ ~exited
    /\ calls["login"] > 0
    /\ asyncErrors < MaxAsyncErrors
    /\ \E text \in FaultTexts :
          lastError' = <<"Discord", " ", "client", " ", "error", ":", " ">> \o text
    /\ calls' = Bump(calls, "destroy")
    /\ errPending' = errPending + 1
    /\ asyncErrors' = asyncErrors + 1
    /\ UNCHANGED <<tool, env, stdinRest, input, message, mainPc, readyPc,
                   exited, exitCode, clientConstructed, sendArgs, dm, dm0,
                   page, idx, lastMessageId, messagesDeleted, deleteCalls,
                   failed, fetchLog, reported, caught, cause>>
    /\ UNCHANGED <<timer, waited, pageLog, run>>

\* the "error" handler resumed after await client.destroy()
ErrorExit ==
    /\ ~exited
    /\ errPending > 0
    /\ errPending' = errPending - 1
    /\ Exit(IF tool = "sender" THEN SENDER_DISCORD_ERROR ELSE PURGER_DISCORD_ERROR)
    /\ UNCHANGED <<tool, env, stdinRest, input, message, mainPc, readyPc,
                   clientConstructed, calls, sendArgs, dm, dm0, page, idx,
                   lastMessageId, messagesDeleted, deleteCalls, failed,
                   fetchLog, reported, lastError, caught, cause, asyncErrors>>
    /\ UNCHANGED <<timer, waited, pageLog, run>>

----------------------------------------------------------------------------
(* The ready handler: sender (sendDM) *)

NullUserText == <<"Cannot", " ", "read", " ", "properties", " ", "of", " ", "null">>

\* what a failed users.fetch / a null user turns into, per tool
FetchUserErrorMessage(t, text) ==
    IF t = "sender" THEN SendDMErrorMessage(text)
    ELSE DeleteMessagesErrorMessage(text)

\* await client.users.fetch(userId) returns a user: user.send / user.createDM
FetchUserOk ==
    /\ ~exited
    /\ readyPc = "fetchUser"
    /\ IF tool = "sender"
       THEN /\ calls' = Bump(calls, "send")
            /\ sendArgs' = Append(sendArgs, message)
            /\ readyPc' = "send"
       ELSE /\ calls' = Bump(calls, "createDM")
            /\ sendArgs' = sendArgs
            /\ readyPc' = "createDM"
    /\ UNCHANGED <<tool, env, stdinRest, input, message, mainPc, errPending,
                   exited, exitCode, clientConstructed, dm, dm0, page, idx,
                   lastMessageId, messagesDeleted, deleteCalls, failed,
                   fetchLog, reported, lastError, caught, cause, asyncErrors>>
    /\ UNCHANGED <<timer, waited, pageLog, run>>

\* await client.users.fetch(userId) returns nothing:
\* sender: throw new Error(`User ... not found`); purger: user.createDM() throws
FetchUserNull ==
    /\ ~exited
    /\ readyPc = "fetchUser"
    /\ ReadyCatch(FetchUserErrorMessage(tool,
                     IF tool = "sender" THEN UserNotFoundMessage(env)
                     ELSE NullUserText), "resolve_fault")
    /\ UNCHANGED <<tool, env, stdinRest, input, message, mainPc, errPending,
                   exited, exitCode, clientConstructed, sendArgs, dm, dm0,
                   page, idx, lastMessageId, messagesDeleted, deleteCalls,
                   failed, fetchLog, reported, asyncErrors>>
    /\ UNCHANGED <<timer, waited, pageLog, run>>

\* await client.users.fetch(userId) throws
FetchUserFault ==
    /\ ~exited
    /\ readyPc = "fetchUser"
    /\ \E text \in FaultTexts :
          ReadyCatch(FetchUserErrorMessage(tool, text), "resolve_fault")
    /\ UNCHANGED <<tool, env, stdinRest, input, message, mainPc, errPending,
                   exited, exitCode, clientConstructed, sendArgs, dm, dm0,
                   page, idx, lastMessageId, messagesDeleted, deleteCalls,
                   failed, fetchLog, reported, asyncErrors>>
    /\ UNCHANGED <<timer, waited, pageLog, run>>

\* await user.send(message) returns: await client.destroy()
SendOk ==
    /\ ~exited
    /\ readyPc = "send"
    /\ calls' = Bump(calls, "destroy")
    /\ readyPc' = "destroyOk"
    /\ UNCHANGED <<tool, env, stdinRest, input, message, mainPc, errPending,
                   exited, exitCode, clientConstructed, sendArgs, dm, dm0,
                   page, idx, lastMessageId, messagesDeleted, deleteCalls,
                   failed, fetchLog, reported, lastError, caught, cause,
                   asyncErrors>>
    /\ UNCHANGED <<timer, waited, pageLog, run>>

\* await user.send(message) throws
SendFault ==
    /\ ~exited
    /\ readyPc = "send"
    /\ \E text \in FaultTexts : ReadyCatch(SendDMErrorMessage(text), "send_fault")
    /\ UNCHANGED <<tool, env, stdinRest, input, message, mainPc, errPending,
                   exited, exitCode, clientConstructed, sendArgs, dm, dm0,
                   page, idx, lastMessageId, messagesDeleted, deleteCalls,
                   failed, fetchLog, reported, asyncErrors>>
    /\ UNCHANGED <<timer, waited, pageLog, run>>

ReadyExitCodeAlwaysSuccess(t, pc, msg) ==
    IF t = "sender" THEN SENDER_SUCCESS ELSE PURGER_SUCCESS

\* ready handler, after await client.destroy(): the argument of process.exit
ReadyExitCode(t, pc, msg) ==
    IF t = "sender"
    THEN (IF pc = "destroyOk" THEN SENDER_SUCCESS ELSE SENDER_DISCORD_ERROR)
    ELSE (IF pc = "destroyOk" THEN PURGER_SUCCESS ELSE PurgerReadyCatchExitCode(msg))

\* the ready handler resumed after await client.destroy()
DestroyDone ==
    /\ ~exited
    /\ readyPc \in {"destroyOk", "destroyFail"}
    /\ Exit(ReadyExitCode(tool, readyPc, caught))
    /\ UNCHANGED <<tool, env, stdinRest, input, message, mainPc, readyPc,
                   errPending, clientConstructed, calls, sendArgs, dm, dm0,
                   page, idx, lastMessageId, messagesDeleted, deleteCalls,
                   failed, fetchLog, reported, lastError, caught, cause,
                   asyncErrors>>
    /\ UNCHANGED <<timer, waited, pageLog, run>>

----------------------------------------------------------------------------
(* The ready handler: purger (deleteBotMessagesFromDM) *)

Max(S) == CHOOSE x \in S : \A y \in S : y <= x

\* ids, newest (largest) first, at most n of them
RECURSIVE NewestFirst(_, _)
NewestFirst(ids, n) ==
    IF n = 0 \/ ids = {} THEN <<>>
    ELSE <<Max(ids)>> \o NewestFirst(ids \ {Max(ids)}, n - 1)

MessageWithId(conv, i) == CHOOSE m \in conv : m.id = i

\* dmChannel.messages.fetch(options): the page the platform returns
FetchResult(conv, options) ==
    LET older == {m.id : m \in {x \in conv : options.before = 0 \/ x.id < options.before}}
        ids == NewestFirst(older, options.limit)
    IN  [k \in 1..Len(ids) |-> MessageWithId(conv, ids[k])]

FetchOptionsDoubleLimit(last) == [limit |-> 2 * BATCH_SIZE, before |-> last]

\* const options = { limit }; if (lastMessageId) options.before = lastMessageId
FetchOptions(last) == [limit |-> BATCH_SIZE, before |-> last]

IsBotMessageAny(m) == TRUE

\* message.author.id === client.user.id
IsBotMessage(m) == m.author = BotId

StopsOnShortPage(pg) == Len(pg) < BATCH_SIZE

\* messages.size === 0
PageIsEmpty(pg) == Len(pg) = 0

IsRateLimitFaultNever(code) == FALSE

IsRateLimitFaultAlways(code) == TRUE

\* error.code === 50001
IsRateLimitFault(code) == code = RATE_LIMIT_CODE

CursorFirst(pg) == pg[1].id

\* lastMessageId = messages.last().id
CursorAfter(pg) == pg[Len(pg)].id

RECURSIVE NextBotSkipsFirst(_, _)
NextBotSkipsFirst(pg, i) ==
    IF i > Len(pg) THEN i
    ELSE IF i > 1 /\ pg[i].author = BotId THEN i
    ELSE NextBotSkipsFirst(pg, i + 1)

\* position of the first bot-authored message of pg at or after i (Len+1: none)
RECURSIVE NextBot(_, _)
NextBot(pg, i) ==
    IF i > Len(pg) THEN i
    ELSE IF IsBotMessage(pg[i]) THEN i
    ELSE NextBot(pg, i + 1)

\* the for..of loop from position i of pg up to the next await:
\* message.delete() on the next bot message, or, the page being done,
\* lastMessageId = messages.last().id and the next messages.fetch
ContinueLoop(pg, i) ==
    LET j == NextBot(pg, i)
    IN  /\ page' = pg
        /\ IF j <= Len(pg)
           THEN /\ idx' = j
                /\ deleteCalls' = [deleteCalls EXCEPT ![pg[j].id] = @ + 1]
                /\ calls' = Bump(calls, "delete")
                /\ readyPc' = "delete"
                /\ UNCHANGED <<lastMessageId, fetchLog>>
           ELSE /\ idx' = j
                /\ lastMessageId' = CursorAfter(pg)
                /\ fetchLog' = Append(fetchLog, FetchOptions(CursorAfter(pg)))
                /\ calls' = Bump(calls, "fetch")
                /\ readyPc' = "fetchPage"
                /\ UNCHANGED deleteCalls

\* await user.createDM() returns: the first messages.fetch
CreateDMOk ==
    /\ ~exited
    /\ readyPc = "createDM"
    /\ fetchLog' = Append(fetchLog, FetchOptions(lastMessageId))
    /\ calls' = Bump(calls, "fetch")
    /\ readyPc' = "fetchPage"
    /\ UNCHANGED <<tool, env, stdinRest, input, message, mainPc, errPending,
                   exited, exitCode, clientConstructed, sendArgs, dm, dm0,
                   page, idx, lastMessageId, messagesDeleted, deleteCalls,
                   failed, reported, lastError, caught, cause, asyncErrors>>
    /\ UNCHANGED <<timer, waited, pageLog, run>>

\* await user.createDM() throws
CreateDMFault ==
    /\ ~exited
    /\ readyPc = "createDM"
    /\ \E text \in FaultTexts :
          ReadyCatch(DeleteMessagesErrorMessage(text), "resolve_fault")
    /\ UNCHANGED <<tool, env, stdinRest, input, message, mainPc, errPending,
                   exited, exitCode, clientConstructed, sendArgs, dm, dm0,
                   page, idx, lastMessageId, messagesDeleted, deleteCalls,
                   failed, fetchLog, reported, asyncErrors>>
    /\ UNCHANGED <<timer, waited, pageLog, run>>

\* await dmChannel.messages.fetch(options) returns
FetchPageOk ==
    /\ ~exited
    /\ readyPc = "fetchPage"
    /\ LET pg == FetchResult(dm, fetchLog[Len(fetchLog)])
       IN  IF PageIsEmpty(pg)
           THEN \* break; return messagesDeleted; console.log; await destroy
                /\ page' = pg
                /\ reported' = <<messagesDeleted>>
                /\ calls' = Bump(calls, "destroy")
                /\ readyPc' = "destroyOk"
                /\ UNCHANGED <<idx, lastMessageId, deleteCalls, fetchLog>>
           ELSE /\ ContinueLoop(pg, 1)
                /\ UNCHANGED reported
    /\ UNCHANGED <<tool, env, stdinRest, input, message, mainPc, errPending,
                   exited, exitCode, clientConstructed, sendArgs, dm, dm0,
                   messagesDeleted, failed, lastError, caught, cause,
                   asyncErrors>>
    /\ pageLog' = Append(pageLog, FetchResult(dm, fetchLog[Len(fetchLog)]))
    /\ UNCHANGED <<timer, waited, run>>

\* await dmChannel.messages.fetch(options) throws
FetchPageFault ==
    /\ ~exited
    /\ readyPc = "fetchPage"
    /\ \E text \in FaultTexts :
          ReadyCatch(DeleteMessagesErrorMessage(text), "fetch_fault")
    /\ UNCHANGED <<tool, env, stdinRest, input, message, mainPc, errPending,
                   exited, exitCode, clientConstructed, sendArgs, dm, dm0,
                   page, idx, lastMessageId, messagesDeleted, deleteCalls,
                   failed, fetchLog, reported, asyncErrors>>
    /\ UNCHANGED <<timer, waited, pageLog, run>>

DelayArgInSeconds == DELAY_MS \div 1000

\* await delay(CONFIG.RATE_LIMIT.DELAY_MS): the argument of setTimeout
DelayArg == DELAY_MS

\* await message.delete() returns: messagesDeleted++, delay(DELAY_MS)
DeleteOk ==
    /\ ~exited
    /\ readyPc = "delete"
    /\ dm' = {m \in dm : m.id # page[idx].id}
    /\ messagesDeleted' = messagesDeleted + 1
    /\ readyPc' = "delay"
    /\ UNCHANGED <<tool, env, stdinRest, input, message, mainPc, errPending,
                   exited, exitCode, clientConstructed, calls, sendArgs, dm0,
                   page, idx, lastMessageId, deleteCalls, failed, fetchLog,
                   reported, lastError, caught, cause, asyncErrors>>
    /\ timer' = DelayArg
    /\ waited' = 0
    /\ UNCHANGED <<pageLog, run>>

\* time passes while the setTimeout of delay is pending
Tick ==
    /\ ~exited
    /\ readyPc = "delay"
    /\ timer > 0
    /\ LET step == IF timer < TickMs THEN timer ELSE TickMs
       IN  /\ timer' = timer - step
           /\ waited' = waited + step
    /\ UNCHANGED <<tool, env, stdinRest, input, message, mainPc, readyPc,
                   errPending, exited, exitCode, clientConstructed, calls,
                   sendArgs, dm, dm0, page, idx, lastMessageId,
                   messagesDeleted, deleteCalls, failed, fetchLog, reported,
                   lastError, caught, cause, asyncErrors, pageLog, run>>

DelayNeverResolves ==
    /\ FALSE
    /\ UNCHANGED vars

\* the timer of delay(DELAY_MS) fires (not before its ms have passed)
DelayDone ==
    /\ ~exited
    /\ readyPc = "delay"
    /\ timer = 0
    /\ ContinueLoop(page, idx + 1)
    /\ UNCHANGED <<tool, env, stdinRest, input, message, mainPc, errPending,
                   exited, exitCode, clientConstructed, sendArgs, dm, dm0,
                   messagesDeleted, failed, reported, lastError, caught, cause,
                   asyncErrors>>
    /\ UNCHANGED <<timer, waited, pageLog, run>>

DeleteFaultCounted ==
    /\ ~exited
    /\ readyPc = "delete"
    /\ \E code \in FaultCodes, text \in FaultTexts :
          IF code = RATE_LIMIT_CODE
          THEN /\ ReadyCatch(DeleteMessagesErrorMessage(RateLimitMessage), "delete_50001")
               /\ UNCHANGED <<page, idx, lastMessageId, deleteCalls, fetchLog, failed>>
          ELSE /\ lastError' = <<"Failed", " ", "to", " ", "delete", " ", "message", " ">> \o text
               /\ failed' = failed \cup {page[idx].id}
               /\ cause' = cause
               /\ ContinueLoop(page, idx + 1)
               /\ UNCHANGED caught
    /\ messagesDeleted' = messagesDeleted + 1
    /\ UNCHANGED <<tool, env, stdinRest, input, message, mainPc, errPending,
                   exited, exitCode, clientConstructed, sendArgs, dm, dm0,
                   reported, asyncErrors, timer, waited, pageLog, run>>

\* await message.delete() throws an error with .code and .message
DeleteFault ==
    /\ ~exited
    /\ readyPc = "delete"
    /\ \E code \in FaultCodes, text \in FaultTexts :
          IF IsRateLimitFault(code)
          THEN \* throw new Error("Rate limit exceeded"), wrapped by the outer catch
               /\ ReadyCatch(DeleteMessagesErrorMessage(RateLimitMessage),
                             IF code = 50001 THEN "delete_50001" ELSE "delete_other")
               /\ UNCHANGED <<page, idx, lastMessageId, deleteCalls, fetchLog, failed>>
          ELSE \* console.error(`Failed to delete message ...`); next message
               /\ lastError' = <<"Failed", " ", "to", " ", "delete", " ", "message", " ">> \o text
               /\ failed' = failed \cup {page[idx].id}
               /\ cause' = (IF code = 50001 THEN "delete_50001" ELSE cause)  \* history only
               /\ ContinueLoop(page, idx + 1)
               /\ UNCHANGED caught
    /\ UNCHANGED <<tool, env, stdinRest, input, message, mainPc, errPending,
                   exited, exitCode, clientConstructed, sendArgs, dm, dm0,
                   messagesDeleted, reported, asyncErrors>>
    /\ UNCHANGED <<timer, waited, pageLog, run>>

----------------------------------------------------------------------------
(* A second invocation of the purger *)

\* the purger is started again on the conversation the last run left behind,
\* after a run that exited 0 with no failed deletion; no message was added
Rerun ==
    /\ exited
    /\ tool = "purger"
    /\ run < MaxRuns
    /\ exitCode = PURGER_SUCCESS
    /\ readyPc = "destroyOk"
    /\ failed = {}
    /\ run' = run + 1
    /\ dm0' = dm
    /\ input' = <<>>
    /\ message' = <<>>
    /\ mainPc' = "validate"
    /\ readyPc' = "idle"
    /\ errPending' = 0
    /\ exited' = FALSE
    /\ exitCode' = 0
    /\ clientConstructed' = FALSE
    /\ calls' = [o \in Ops |-> 0]
    /\ sendArgs' = <<>>
    /\ page' = <<>>
    /\ idx' = 0
    /\ lastMessageId' = 0
    /\ messagesDeleted' = 0
    /\ deleteCalls' = [i \in 1..MaxMsgs |-> 0]
    /\ fetchLog' = <<>>
    /\ reported' = <<>>
    /\ lastError' = <<>>
    /\ caught' = <<>>
    /\ cause' = "none"
    /\ asyncErrors' = 0
    /\ timer' = 0
    /\ waited' = 0
    /\ pageLog' = <<>>
    /\ UNCHANGED <<tool, env, stdinRest, dm, failed>>

----------------------------------------------------------------------------

Next ==
    \/ MainValidate
    \/ StdinData
    \/ StdinEnd
    \/ StdinError
    \/ LoginResolve
    \/ LoginReject
    \/ Ready
    \/ ErrorEvent
    \/ ErrorExit
    \/ FetchUserOk
    \/ FetchUserNull
    \/ FetchUserFault
    \/ SendOk
    \/ SendFault
    \/ DestroyDone
    \/ CreateDMOk
    \/ CreateDMFault
    \/ FetchPageOk
    \/ FetchPageFault
    \/ DeleteOk
    \/ Tick
    \/ DelayDone
    \/ DeleteFault
    \/ Rerun

Spec == Init /\ [][Next]_vars

\* what the event loop and the platform are bound to do: every awaited call
\* settles, every timer fires, every resumed handler runs.  A client "error"
\* event and a second invocation are not bound to happen.
Progress ==
    \/ MainValidate
    \/ StdinData
    \/ StdinEnd
    \/ StdinError
    \/ LoginResolve
    \/ LoginReject
    \/ Ready
    \/ ErrorExit
    \/ FetchUserOk
    \/ FetchUserNull
    \/ FetchUserFault
    \/ SendOk
    \/ SendFault
    \/ DestroyDone
    \/ CreateDMOk
    \/ CreateDMFault
    \/ FetchPageOk
    \/ FetchPageFault
    \/ DeleteOk
    \/ Tick
    \/ DelayDone
    \/ DeleteFault

FairSpec == Spec /\ WF_vars(Progress)

----------------------------------------------------------------------------
(* Vocabulary of the properties *)

Keys == {"BOT_TOKEN", "DM_USER_ID"}

MissingKeys == {k \in Keys : env[k] = Undefined \/ env[k] = ""}

\* the required keys a text names, and how often it names any of them
KeysNamed(text) == {text[i] : i \in 1..Len(text)} \cap Keys
KeyMentions(text) == Cardinality({i \in 1..Len(text) : text[i] \in Keys})

\* m is s without its leading and trailing white space, and m is not empty
IsTrimOf(m, s) ==
    \E i \in 1..Len(s), j \in 1..Len(s) :
        /\ i <= j
        /\ m = SubSeq(s, i, j)
        /\ s[i] \notin WhiteSpace
        /\ s[j] \notin WhiteSpace
        /\ \A k \in 1..Len(s) : (k < i \/ k > j) => s[k] \in WhiteSpace

AllWhiteSpace(s) == \A k \in 1..Len(s) : s[k] \in WhiteSpace

CeilDiv(n, d) == (n + d - 1) \div d

BotMessages(conv) == {m \in conv : m.author = BotId}

NoCalls == \A o \in Ops : calls[o] = 0

\* the purge loop ran to its end: no fetch or resolve fault, no abort,
\* no client "error" event
PurgeCompleted ==
    /\ tool = "purger"
    /\ exited
    /\ readyPc = "destroyOk"
    /\ cause = "none"
    /\ asyncErrors = 0

\* the exit codes of README "Exit Codes" and of the two CONFIG.EXIT_CODES tables
DocumentedExit(t, c) ==
    IF t = "sender"
    THEN CASE c = "none" -> 0
           [] c = "empty_input" -> 1
           [] c = "missing_config" -> 2
           [] c = "stdin_error" -> 4
           [] OTHER -> 3
    ELSE CASE c = "none" -> 0
           [] c = "missing_config" -> 1
           [] c = "delete_50001" -> 3
           [] OTHER -> 2

----------------------------------------------------------------------------
(* C1 *)

\* C1: the sender, with both keys set, given a standard input that is empty
\* after trimming, exits with code 1 (NO_MESSAGE).
C1_EmptyInputExitsNoMessage ==
    (/\ tool = "sender"
     /\ exited
     /\ MissingKeys = {}
     /\ cause = "empty_input"
     /\ stdinRest = <<>>
     /\ AllWhiteSpace(input))
    => exitCode = 1

----------------------------------------------------------------------------
(* C2 *)

\* C2: when some required key is unset or empty, the error names exactly the
\* missing keys, each once, and the process exits 2 (sender) or 1 (purger);
\* when both keys are non-empty validation raises nothing.
C2_ValidationNamesEveryMissingKey ==
    /\ (MissingKeys # {} /\ (exited \/ mainPc # "validate")) =>
          /\ exited
          /\ mainPc = "validate"
          /\ cause = "missing_config"
          /\ KeysNamed(lastError) = MissingKeys
          /\ KeyMentions(lastError) = Cardinality(MissingKeys)
          /\ exitCode = (IF tool = "sender" THEN 2 ELSE 1)
    /\ MissingKeys = {} =>
          /\ cause # "missing_config"
          /\ ~(exited /\ mainPc = "validate")

C2_Witness ==
    /\ exited
    /\ cause = "missing_config"
    /\ MissingKeys = Keys
    /\ tool = "purger"

----------------------------------------------------------------------------
(* C3 *)

\* C3: no client is constructed and no client operation is issued before the
\* environment is validated and, for the sender, standard input has ended
\* with non-empty trimmed text; a run that fails before that issues none.
C3_NoClientBeforePreflight ==
    /\ (clientConstructed \/ ~NoCalls) =>
          /\ MissingKeys = {}
          /\ tool = "sender" =>
                /\ stdinRest = <<>>
                /\ IsTrimOf(message, input)
    /\ (exited /\ cause \in {"missing_config", "empty_input", "stdin_error"}) =>
          /\ ~clientConstructed
          /\ NoCalls

C3_Witness ==
    /\ tool = "sender"
    /\ clientConstructed
    /\ calls["login"] = 1
    /\ calls["send"] = 1
    /\ Len(input) > Len(message)

----------------------------------------------------------------------------
(* C4 *)

\* C4: the exit code is decided by the kind of fault alone, whatever text the
\* underlying fault carries: a run stopped by a fault of a given kind exits
\* with the code documented for that kind (a sender login failure 3, a purger
\* fault other than a 50001 deletion fault never 3).  The code of an empty
\* input, which carries no underlying text, is C1's subject.
C4_ExitCodeByCauseAlone ==
    (/\ exited
     /\ asyncErrors = 0
     /\ cause \notin {"none", "empty_input"})
    => exitCode = DocumentedExit(tool, cause)

----------------------------------------------------------------------------
(* C5 *)

\* C5: in a sender run whose send call succeeded, with no fault and no client
\* "error" event, exactly one send call was issued, its argument is the input
\* without its leading and trailing white space, and the exit code is 0.
C5_SenderSendsTrimmedOnce ==
    (/\ tool = "sender"
     /\ readyPc = "destroyOk"
     /\ asyncErrors = 0)
    => /\ cause = "none"
       /\ calls["send"] = 1
       /\ Len(sendArgs) = 1
       /\ IsTrimOf(sendArgs[1], input)
       /\ exited => exitCode = 0

C5_Witness ==
    /\ tool = "sender"
    /\ exited
    /\ exitCode = 0
    /\ asyncErrors = 0
    /\ input = <<"\n", "h", "\n">>
    /\ sendArgs = << <<"h">> >>

----------------------------------------------------------------------------
(* C6 *)

\* C6 as claimed: a completed purge of a conversation without bot messages
\* reports 0, issues no delete call and exactly one page fetch.
C6_NoBotMessagesOneFetch ==
    (PurgeCompleted /\ BotMessages(dm0) = {})
    => /\ reported = <<0>>
       /\ calls["delete"] = 0
       /\ calls["fetch"] = 1

\* C6 amended: a completed purge of a conversation of M messages, none of them
\* bot-authored, reports 0, issues no delete call and ceil(M / BATCH_SIZE) + 1
\* page fetches: one per page of the conversation and a last one that comes
\* back empty (so exactly one only when the conversation is empty).
C6_NoBotMessagesFetchesEveryPage ==
    (PurgeCompleted /\ BotMessages(dm0) = {})
    => /\ reported = <<0>>
       /\ calls["delete"] = 0
       /\ \A i \in 1..MaxMsgs : deleteCalls[i] = 0
       /\ calls["fetch"] = CeilDiv(Cardinality(dm0), BATCH_SIZE) + 1
       /\ (calls["fetch"] = 1 <=> dm0 = {})
       /\ dm = dm0

C6_Witness ==
    /\ PurgeCompleted
    /\ BotMessages(dm0) = {}
    /\ Cardinality(dm0) > BATCH_SIZE
    /\ calls["fetch"] = 3

----------------------------------------------------------------------------
(* C7 *)

\* the conversation holds n >= 1 bot messages and spans ceil(n / BATCH_SIZE) pages
BotMessagesFillPages ==
    /\ BotMessages(dm0) # {}
    /\ CeilDiv(Cardinality(dm0), BATCH_SIZE)
         = CeilDiv(Cardinality(BotMessages(dm0)), BATCH_SIZE)

\* C7 as claimed: a fault-free purge of N >= 1 bot messages on ceil(N / 50)
\* pages issues exactly ceil(N / 50) page fetches, each with limit 50.
C7_FetchesAsManyAsPages ==
    (PurgeCompleted /\ failed = {} /\ BotMessagesFillPages)
    => /\ calls["fetch"] = CeilDiv(Cardinality(BotMessages(dm0)), BATCH_SIZE)
       /\ \A k \in 1..Len(fetchLog) : fetchLog[k].limit = BATCH_SIZE

\* C7 amended: such a run issues exactly ceil(N / BATCH_SIZE) + 1 page fetches,
\* the last of which returns the empty page that ends the loop, each with
\* limit BATCH_SIZE.
C7_FetchesPagesPlusOne ==
    (PurgeCompleted /\ failed = {} /\ BotMessagesFillPages)
    => /\ calls["fetch"] = CeilDiv(Cardinality(BotMessages(dm0)), BATCH_SIZE) + 1
       /\ Len(fetchLog) = calls["fetch"]
       /\ \A k \in 1..Len(fetchLog) : fetchLog[k].limit = BATCH_SIZE
       /\ page = <<>>

C7_Witness ==
    /\ PurgeCompleted
    /\ failed = {}
    /\ BotMessagesFillPages
    /\ Cardinality(BotMessages(dm0)) > BATCH_SIZE
    /\ Cardinality(BotMessages(dm0)) < Cardinality(dm0)
    /\ calls["fetch"] >= 3

----------------------------------------------------------------------------
(* C8 *)

\* C8: a purge in which every fetch and every deletion succeeds issues exactly
\* one delete call for each bot-authored message and none for any other,
\* leaves no bot-authored message (and every other message) in the
\* conversation, reports the number of bot-authored messages and exits 0.
C8_PurgeDeletesEveryBotMessageOnce ==
    (PurgeCompleted /\ failed = {})
    => /\ \A m \in dm0 : deleteCalls[m.id] = (IF m.author = BotId THEN 1 ELSE 0)
       /\ calls["delete"] = Cardinality(BotMessages(dm0))
       /\ BotMessages(dm) = {}
       /\ dm = dm0 \ BotMessages(dm0)
       /\ reported = <<Cardinality(BotMessages(dm0))>>
       /\ exitCode = 0

C8_Witness ==
    /\ PurgeCompleted
    /\ failed = {}
    /\ Cardinality(BotMessages(dm0)) > BATCH_SIZE
    /\ [id |-> 1, author |-> BotId] \in dm0
    /\ [id |-> 2, author |-> UserId] \in dm0
    /\ [id |-> 3, author |-> BotId] \in dm0
    /\ reported = <<Cardinality(BotMessages(dm0))>>

----------------------------------------------------------------------------
(* C9 *)

\* a delete call has failed with code 50001
RateLimitAbort ==
    /\ tool = "purger"
    /\ cause = "delete_50001"

\* C9: once the k-th delete call has failed with code 50001 no fetch and no
\* delete call is issued any more, the tally is and stays the number of the
\* k-1 earlier calls that succeeded (k-1 when all of them did), the deleted
\* messages stay deleted and no other is, the client is torn down, and the
\* process (no client "error" event having fired) exits with code 3.
C9_RateLimitAbortsRun ==
    /\ [](RateLimitAbort =>
            /\ readyPc = "destroyFail"
            /\ calls["destroy"] >= 1
            /\ messagesDeleted = calls["delete"] - 1 - Cardinality(failed)
            /\ failed = {} => messagesDeleted = calls["delete"] - 1
            /\ Cardinality(dm) = Cardinality(dm0) - messagesDeleted
            /\ dm \subseteq dm0
            /\ reported = <<>>
            /\ (exited /\ asyncErrors = 0) =>
                  /\ exitCode = 3
                  /\ calls["destroy"] = 1)
    /\ [][RateLimitAbort =>
            /\ calls'["fetch"] = calls["fetch"]
            /\ calls'["delete"] = calls["delete"]
            /\ deleteCalls' = deleteCalls
            /\ fetchLog' = fetchLog
            /\ messagesDeleted' = messagesDeleted
            /\ dm' = dm]_vars

C9_Witness ==
    /\ RateLimitAbort
    /\ failed = {}
    /\ exited
    /\ exitCode = 3
    /\ calls["delete"] = 3
    /\ messagesDeleted = 2
    /\ Cardinality(dm0) = 4
    /\ Cardinality(dm) = 2

----------------------------------------------------------------------------
(* C10 *)

\* C10: a delete call that fails with a code other than 50001 never aborts the
\* run and leaves the tally alone: when the run ends without another fault
\* every bot-authored message, the failed ones included, has received exactly
\* one delete call, the failed messages are the bot-authored messages left,
\* and the process exits 0 reporting the number of deletions that succeeded.
C10_OtherDeleteFaultAbsorbed ==
    /\ cause # "delete_other"
    /\ (tool = "purger" /\ cause = "none") =>
          /\ readyPc # "destroyFail"
          /\ messagesDeleted + Cardinality(failed) <= calls["delete"]
          /\ calls["delete"] <= messagesDeleted + Cardinality(failed) + 1
          /\ messagesDeleted = Cardinality(dm0) - Cardinality(dm)
    /\ PurgeCompleted =>
          /\ \A m \in BotMessages(dm0) : deleteCalls[m.id] = 1
          /\ BotMessages(dm) = {m \in BotMessages(dm0) : m.id \in failed}
          /\ reported = <<Cardinality(BotMessages(dm0)) - Cardinality(failed)>>
          /\ exitCode = 0

C10_Witness ==
    /\ PurgeCompleted
    /\ failed = {4}
    /\ Cardinality(BotMessages(dm0)) = 4
    /\ [id |-> 3, author |-> BotId] \in dm0 \ dm
    /\ [id |-> 1, author |-> BotId] \in dm0 \ dm
    /\ [id |-> 4, author |-> BotId] \in dm
    /\ reported = <<3>>

----------------------------------------------------------------------------
(* C11 *)

\* C11: in every run in which a client was constructed, client.destroy() has
\* been called exactly once when the process exits.
C11_DestroyExactlyOnce ==
    (exited /\ clientConstructed) => calls["destroy"] = 1

----------------------------------------------------------------------------
(* C12 *)

\* C12: a run in which the client's "error" event fired after login and before
\* the exit ends with the platform-error code (3 sender, 2 purger), however
\* the "error" handler interleaves with the ready handler.  (Stated for runs
\* that meet no other fault: the code of a run that does is C4's subject.)
C12_AsyncErrorExitsPlatformError ==
    (exited /\ asyncErrors > 0 /\ cause = "none")
    => exitCode = (IF tool = "sender" THEN 3 ELSE 2)

----------------------------------------------------------------------------
(* C15 *)

\* C15: a sender run whose standard input raised a stream error before
\* end-of-stream exits with code 4 and has not logged a client in.
C15_StdinErrorExitsFour ==
    (tool = "sender" /\ exited /\ cause = "stdin_error")
    => /\ exitCode = 4
       /\ calls["login"] = 0

----------------------------------------------------------------------------
(* C18 *)

\* C18: a sender run issues at most one user-resolve call and at most one send
\* call; once the resolve yielded nothing or failed, or the send failed, no
\* further attempt is made and the exit code is 3; the exit code is 0 only if
\* the one send call returned successfully.
C18_SenderNoRetryNoFalseSuccess ==
    tool = "sender" =>
       /\ calls["fetchUser"] <= 1
       /\ calls["send"] <= 1
       /\ Len(sendArgs) = calls["send"]
       /\ cause = "resolve_fault" =>
             /\ calls["send"] = 0
             /\ readyPc = "destroyFail"
             /\ exited => exitCode = 3
       /\ cause = "send_fault" =>
             /\ calls["send"] = 1
             /\ readyPc = "destroyFail"
             /\ exited => exitCode = 3
       /\ (exited /\ exitCode = 0) =>
             /\ readyPc = "destroyOk"
             /\ calls["send"] = 1
             /\ cause = "none"

C18_Witness ==
    /\ tool = "sender"
    /\ exited
    /\ exitCode = 3
    /\ cause = "send_fault"
    /\ calls["fetchUser"] = 1
    /\ calls["send"] = 1
    /\ asyncErrors = 0

----------------------------------------------------------------------------
(* C13 *)

\* delete calls issued and not yet settled
DeletesInFlight ==
    calls["delete"] - messagesDeleted - Cardinality(failed)
        - (IF cause = "delete_50001" THEN 1 ELSE 0)

\* C13: at most one delete call is in flight at any time; a successful
\* deletion is followed by delay(DELAY_MS) and by nothing else until DELAY_MS
\* ms have passed; a delete call is issued only right after a page fetch
\* returned, after such a completed delay, or after a failed deletion.
C13_DeletesSerialisedAndDelayed ==
    /\ [](tool = "purger" =>
            /\ DeletesInFlight \in {0, 1}
            /\ DeletesInFlight = 1 <=> readyPc = "delete"
            /\ readyPc = "delay" => timer + waited = DELAY_MS)
    /\ [][run' = run =>
            /\ messagesDeleted' # messagesDeleted =>
                  /\ calls' = calls
                  /\ readyPc' = "delay"
                  /\ timer' = DELAY_MS
                  /\ waited' = 0
            /\ (readyPc = "delay" /\ calls' # calls /\ calls'["destroy"] = calls["destroy"]) =>
                  /\ timer = 0
                  /\ waited >= DELAY_MS
            /\ calls'["delete"] # calls["delete"] =>
                  /\ calls'["delete"] = calls["delete"] + 1
                  /\ \/ readyPc = "fetchPage"
                     \/ readyPc = "delay" /\ waited >= DELAY_MS
                     \/ readyPc = "delete" /\ failed' # failed]_vars

C13_Witness ==
    /\ tool = "purger"
    /\ readyPc = "delete"
    /\ messagesDeleted = 2
    /\ failed = {}
    /\ waited = DELAY_MS
    /\ timer = 0
    /\ calls["delete"] = 3
    /\ idx = 2

----------------------------------------------------------------------------
(* C14 *)

\* C14: once the purger's client is ready the process eventually exits, for
\* every conversation and every pattern of deletion outcomes.
C14_PurgeTerminates ==
    (tool = "purger" /\ readyPc = "fetchUser" /\ ~exited) ~> exited

C14_Witness ==
    /\ tool = "purger"
    /\ exited
    /\ asyncErrors = 0
    /\ cause = "none"
    /\ Len(pageLog) = 3
    /\ failed # {}
    /\ messagesDeleted >= 2

----------------------------------------------------------------------------
(* C16 *)

IdsOf(pg) == {pg[i].id : i \in 1..Len(pg)}

\* C16: the first fetch has no "before"; every later fetch has as "before" the
\* id of the last message of the page before it; a page holds only messages
\* older than the "before" it was asked with; so the cursor moves to strictly
\* older ids and no message comes back in two pages of a run.
C16_CursorMovesStrictlyBack ==
    tool = "purger" =>
       /\ Len(pageLog) <= Len(fetchLog)
       /\ Len(fetchLog) <= Len(pageLog) + 1
       /\ fetchLog # <<>> => fetchLog[1].before = 0
       /\ fetchLog # <<>> => lastMessageId = fetchLog[Len(fetchLog)].before
       /\ \A k \in 2..Len(fetchLog) :
             /\ pageLog[k - 1] # <<>>
             /\ fetchLog[k].before = pageLog[k - 1][Len(pageLog[k - 1])].id
             /\ k > 2 => fetchLog[k].before < fetchLog[k - 1].before
       /\ \A k \in 1..Len(pageLog) :
             /\ Len(pageLog[k]) <= BATCH_SIZE
             /\ \A i \in IdsOf(pageLog[k]) :
                   fetchLog[k].before = 0 \/ i < fetchLog[k].before
             /\ \A l \in 1..Len(pageLog) :
                   l # k => IdsOf(pageLog[k]) \cap IdsOf(pageLog[l]) = {}

C16_Witness ==
    /\ tool = "purger"
    /\ Len(fetchLog) = 3
    /\ fetchLog[2].before = 3
    /\ fetchLog[3].before = 1
    /\ [id |-> 3, author |-> UserId] \in dm0
    /\ 1 \in failed
    /\ [id |-> 4, author |-> BotId] \in dm0 \ dm

----------------------------------------------------------------------------
(* C17 *)

\* bot-authored messages the run has fetched so far
BotMessagesFetched ==
    UNION { {pageLog[k][i].id : i \in {j \in 1..Len(pageLog[k]) :
                                          pageLog[k][j].author = BotId}}
              : k \in 1..Len(pageLog) }

\* C17: messagesDeleted is the number of deletions that have succeeded in this
\* run (the messages that left the conversation); it is 0 before the loop,
\* moves only by +1 and only when a pending deletion succeeds, never exceeds
\* the number of bot-authored messages fetched so far, and is the count
\* printed before exit 0.
C17_TallyCountsSuccessfulDeletions ==
    /\ [](tool = "purger" =>
            /\ messagesDeleted = Cardinality(dm0) - Cardinality(dm)
            /\ messagesDeleted >= 0
            /\ messagesDeleted <= Cardinality(BotMessagesFetched)
            /\ fetchLog = <<>> => messagesDeleted = 0
            /\ reported # <<>> => reported = <<messagesDeleted>>
            /\ (exited /\ exitCode = 0) => reported = <<messagesDeleted>>)
    /\ [][run' = run =>
            \/ messagesDeleted' = messagesDeleted /\ dm' = dm
            \/ /\ messagesDeleted' = messagesDeleted + 1
               /\ readyPc = "delete"
               /\ dm' = dm \ {page[idx]}
               /\ dm' # dm]_vars

C17_Witness ==
    /\ tool = "purger"
    /\ exited
    /\ exitCode = 0
    /\ reported = <<2>>
    /\ Cardinality(failed) = 1
    /\ Cardinality(BotMessagesFetched) = 3
    /\ Cardinality(dm0) = 4

----------------------------------------------------------------------------
(* C19 *)

\* C19: a purge run that follows a run that exited 0 with no failed deletion,
\* no message having been added, finds no bot-authored message, issues no
\* delete call and, if it meets no fault, reports 0 and exits 0.
C19_SecondPurgeDeletesNothing ==
    run >= 2 =>
       /\ BotMessages(dm0) = {}
       /\ dm = dm0
       /\ calls["delete"] = 0
       /\ messagesDeleted = 0
       /\ PurgeCompleted => (reported = <<0>> /\ exitCode = 0)

C19_Witness ==
    /\ run = 2
    /\ PurgeCompleted
    /\ reported = <<0>>
    /\ calls["delete"] = 0
    /\ Cardinality(dm) = 2
    /\ calls["fetch"] = 2

====
